---------------------------- MODULE Spec2Model ----------------------------
(***************************************************************************)
(* Model of the AirCatch virtual display driver's user-client connection   *)
(* (AirCatchUserClient.cpp) and of the Display Service it forwards to      *)
(* (AirCatchDisplayDriver.h).                                              *)
(*                                                                         *)
(* The connection object (isOpen, driver), its lifecycle (Start, Stop,     *)
(* ClientClose) and the method dispatch (ExternalMethod, sMethods and the  *)
(* five ExternalMethod* handlers) are translated from the source.  The     *)
(* Display Service operations are only declared in the header; their       *)
(* bodies are modelled from the design document and marked so.             *)
(*                                                                         *)
(* Specifications: Spec (one connection, every call shape), SpecRestart    *)
(* (a host that starts a connection again), SpecShared (several            *)
(* connections), SpecDisplay (well-formed calls and the service's Stop),   *)
(* SpecFaulty (reads that fail in a lower layer) and SpecConcurrent        *)
(* (Connect run step by step on several connections).                      *)
(***************************************************************************)
EXTENDS Integers, Sequences, FiniteSets, TLC

\* ------------------------------------------------------------------ bounds
NumConns == 2
MaxDim == 2
MaxSelector == 6

\* ------------------------------------------------------- program constants
kAirCatchDisplayDriverMethodConnectDisplay == 0
kAirCatchDisplayDriverMethodDisconnectDisplay == 1
kAirCatchDisplayDriverMethodGetDisplayInfo == 2
kAirCatchDisplayDriverMethodGetFramebuffer == 3
kAirCatchDisplayDriverMethodUpdateFramebuffer == 4
kAirCatchDisplayDriverMethodCount == 5

\* kern_return_t values the connection code itself returns
kIOReturnSuccess == "kIOReturnSuccess"
kIOReturnError == "kIOReturnError"
kIOReturnBadArgument == "kIOReturnBadArgument"

\* result codes of the Display Service
NotConnected == "NotConnected"
OutOfBounds == "OutOfBounds"
AllocationFailed == "AllocationFailed"
InternalError == "InternalError"

nullptr == "nullptr"
TheDriver == "AirCatchDisplayDriver"
OtherService == "IOService"

\* A uint64_t in three parts: bit 63 (top), bits 32..62 (hi) and the low 32
\* bits (lo).  The value is top * 2^63 + hi * 2^32 + lo.
U64(hi, lo) == [top |-> 0, hi |-> hi, lo |-> lo]

\* The same with bit 63 set: 2^63 + hi * 2^32 + lo.
Top64(hi, lo) == [top |-> 1, hi |-> hi, lo |-> lo]

\* (uint32_t)x of a uint64_t x: the low half.
UInt32(x) == x.lo

\* A uint32_t (or a size below 2^32) widened to uint64_t.
ToU64(n) == U64(0, n)

Conns == 1..NumConns
Selectors == 0..MaxSelector
\* The scalar inputs a caller passes: the dimensions 1..MaxDim, and two values
\* that do not fit 32 bits: 2^32, whose low half is zero, and 2^32 + 1.
ScalarVals == {U64(0, n) : n \in 1..MaxDim} \cup {U64(1, 0), U64(1, 1)}

VARIABLES
    isOpen,        \* ivars->isOpen of each connection
    driver,        \* ivars->driver of each connection
    pc,            \* where each connection's Start / Stop stands
    life,          \* what the host has done with each connection object
    wasClosed,     \* ClientClose or Stop has run on the connection
    connected,     \* DisplayState.connected
    config,        \* DisplayState.config (<<>> when none)
    framebuffer,   \* sizes of the Framebuffer Resources allocated and not
                   \* released, the service's own one first (<<>> when none)
    lock,          \* the connection whose Connect holds the service's lock (0: free)
    inflight,      \* the Connect each connection has in progress ("none" when none)
    last           \* the call that produced this state and what it returned

connVars == <<isOpen, driver, pc, life, wasClosed>>
svcVars == <<connected, config, framebuffer>>
txVars == <<lock, inflight>>
vars == <<isOpen, driver, pc, life, wasClosed, connected, config, framebuffer,
          lock, inflight, last>>


\* ---------------------------------------------------------- Display Service
\* The state the service holds, as one value.
ServiceState == [connected |-> connected, config |-> config, framebuffer |-> framebuffer]

\* Bytes of a BGRA8888 framebuffer (below 2^32 for the dimensions modelled).
FramebufferSize(width, height) == width * height * 4

\* What a service operation gives back: its result code, the state it leaves
\* and the values it writes through its out-parameters.
ServiceResult(ret, state, out) == [ret |-> ret, state |-> state, out |-> out]

Disconnected == [connected |-> FALSE, config |-> <<>>, framebuffer |-> <<>>]

\* Connect: inputs outside the valid ranges are refused with the state kept;
\* otherwise the old framebuffer is released first, and an allocation failure
\* leaves the service disconnected.
ConnectDisplay(state, width, height, refreshRate, env) ==
    IF width = 0 \/ height = 0 \/ refreshRate = 0
    THEN ServiceResult(env.reject, state, <<>>)
    ELSE IF ~env.allocOK
    THEN ServiceResult(AllocationFailed, Disconnected, <<>>)
    ELSE ServiceResult(kIOReturnSuccess,
                       [connected |-> TRUE,
                        config |-> <<width, height, refreshRate>>,
                        framebuffer |-> <<FramebufferSize(width, height)>>],
                       <<>>)

DisconnectDisplay(state) ==
    ServiceResult(kIOReturnSuccess, Disconnected, <<>>)

\* out = <<width, height, refreshRate, isConnected>>
GetDisplayInfo(state) ==
    IF state.connected
    THEN ServiceResult(kIOReturnSuccess, state,
                       <<state.config[1], state.config[2], state.config[3], TRUE>>)
    ELSE ServiceResult(kIOReturnSuccess, state, <<0, 0, 0, FALSE>>)

\* out = <<framebuffer handle, size>>
GetFramebuffer(state) ==
    IF ~state.connected
    THEN ServiceResult(NotConnected, state, <<>>)
    ELSE ServiceResult(kIOReturnSuccess, state, <<"framebuffer", state.framebuffer[1]>>)

UpdateFramebuffer(state, offset, length) ==
    IF ~state.connected
    THEN ServiceResult(NotConnected, state, <<>>)
    ELSE IF \/ offset.top + length.top > 0
            \/ offset.hi + length.hi > 0
            \/ offset.lo + length.lo > state.framebuffer[1]
    THEN ServiceResult(OutOfBounds, state, <<>>)
    ELSE ServiceResult(kIOReturnSuccess, state, <<>>)

\* A read of the service under the environment `env`: when a lower layer
\* fails, the failure is surfaced as-is with nothing written and the state kept.
LowerLayer(r, state, env) ==
    IF env.fault = "none" THEN r ELSE ServiceResult(env.fault, state, <<>>)

\* ------------------------------------------------------ method dispatch table
Dispatch(function, nIn, sIn, nOut, sOut) ==
    [function |-> function,
     checkCompletionExists |-> FALSE,
     checkScalarInputCount |-> nIn,
     checkStructureInputSize |-> sIn,
     checkScalarOutputCount |-> nOut,
     checkStructureOutputSize |-> sOut]

\* Mutant of sMethods: the GetFramebuffer entry declares a structure output,
\* since the handler returns the framebuffer through structureOutput.
sMethods_StructureDeclared(selector) ==
    CASE selector = kAirCatchDisplayDriverMethodConnectDisplay ->
            Dispatch("ExternalMethodConnectDisplay", 3, 0, 0, 0)
      [] selector = kAirCatchDisplayDriverMethodDisconnectDisplay ->
            Dispatch("ExternalMethodDisconnectDisplay", 0, 0, 0, 0)
      [] selector = kAirCatchDisplayDriverMethodGetDisplayInfo ->
            Dispatch("ExternalMethodGetDisplayInfo", 0, 0, 4, 0)
      [] selector = kAirCatchDisplayDriverMethodGetFramebuffer ->
            Dispatch("ExternalMethodGetFramebuffer", 0, 0, 1, 8)
      [] selector = kAirCatchDisplayDriverMethodUpdateFramebuffer ->
            Dispatch("ExternalMethodUpdateFramebuffer", 2, 0, 0, 0)

sMethods(selector) ==
    CASE selector = kAirCatchDisplayDriverMethodConnectDisplay ->
            Dispatch("ExternalMethodConnectDisplay", 3, 0, 0, 0)
      [] selector = kAirCatchDisplayDriverMethodDisconnectDisplay ->
            Dispatch("ExternalMethodDisconnectDisplay", 0, 0, 0, 0)
      [] selector = kAirCatchDisplayDriverMethodGetDisplayInfo ->
            Dispatch("ExternalMethodGetDisplayInfo", 0, 0, 4, 0)
      [] selector = kAirCatchDisplayDriverMethodGetFramebuffer ->
            Dispatch("ExternalMethodGetFramebuffer", 0, 0, 1, 0)
      [] selector = kAirCatchDisplayDriverMethodUpdateFramebuffer ->
            Dispatch("ExternalMethodUpdateFramebuffer", 2, 0, 0, 0)

\* The shapes of IOUserClientMethodArguments a caller can present: the five
\* shapes the table declares, and two that carry a structure.
Shape(nIn, sIn, nOut, sOut, completion) ==
    [scalarInputCount |-> nIn,
     structureInputSize |-> sIn,
     scalarOutputCount |-> nOut,
     structureOutputMaximumSize |-> sOut,
     completion |-> completion]

Shapes ==
    { Shape(3, 0, 0, 0, FALSE), Shape(0, 0, 0, 0, FALSE), Shape(0, 0, 4, 0, FALSE),
      Shape(0, 0, 1, 0, FALSE), Shape(2, 0, 0, 0, FALSE),
      Shape(3, 8, 0, 0, FALSE), Shape(0, 0, 1, 8, FALSE), Shape(0, 0, 0, 0, TRUE) }

\* arguments: a shape and the scalar inputs it carries
ArgumentsOf(sh) ==
    { [shape |-> sh, scalarInput |-> in] : in \in [1..sh.scalarInputCount -> ScalarVals] }

\* The argument check of the superclass ExternalMethod against a table entry.
ArgumentsMatch(dispatch, arguments) ==
    /\ dispatch.checkCompletionExists = arguments.shape.completion
    /\ dispatch.checkScalarInputCount = arguments.shape.scalarInputCount
    /\ dispatch.checkStructureInputSize = arguments.shape.structureInputSize
    /\ dispatch.checkScalarOutputCount = arguments.shape.scalarOutputCount
    /\ dispatch.checkStructureOutputSize = arguments.shape.structureOutputMaximumSize


\* ------------------------------------------------------------- the handlers
\* The output slots as the caller hands them in: not yet written.
Unwritten == U64(2, 0)
InitialScalarOutput(arguments) == [i \in 1..arguments.shape.scalarOutputCount |-> Unwritten]

\* What a handler gives back: the call's result code, the service state it
\* leaves, the service operation it invoked (with the arguments that reached it
\* and the code it returned) and the output slots of `arguments` after the call.
HandlerResult(ret, state, svcOp, svcArgs, svcRet, scalarOutput, structureOutput) ==
    [ret |-> ret, state |-> state, svcOp |-> svcOp, svcArgs |-> svcArgs,
     svcRet |-> svcRet, scalarOutput |-> scalarOutput,
     structureOutput |-> structureOutput]

\* A return before any service operation is invoked.
Rejected(ret, arguments) ==
    HandlerResult(ret, ServiceState, "none", <<>>, "none",
                  InitialScalarOutput(arguments), nullptr)

\* Mutant of ExternalMethodConnectDisplay: height read from position 0, the
\* line of width copied and its index left as it was.
ExternalMethodConnectDisplay_CopiedIndex(target, arguments, env) ==
    IF driver[target] = nullptr
    THEN Rejected(kIOReturnError, arguments)
    ELSE LET width == UInt32(arguments.scalarInput[1])
             height == UInt32(arguments.scalarInput[1])
             refreshRate == UInt32(arguments.scalarInput[3])
             r == ConnectDisplay(ServiceState, width, height, refreshRate, env)
         IN  HandlerResult(r.ret, r.state, "ConnectDisplay",
                           <<width, height, refreshRate>>, r.ret,
                           InitialScalarOutput(arguments), nullptr)

\* Mutant of ExternalMethodConnectDisplay: height and refreshRate read from
\* each other's position.
ExternalMethodConnectDisplay_Shifted(target, arguments, env) ==
    IF driver[target] = nullptr
    THEN Rejected(kIOReturnError, arguments)
    ELSE LET width == UInt32(arguments.scalarInput[1])
             height == UInt32(arguments.scalarInput[3])
             refreshRate == UInt32(arguments.scalarInput[2])
             r == ConnectDisplay(ServiceState, width, height, refreshRate, env)
         IN  HandlerResult(r.ret, r.state, "ConnectDisplay",
                           <<width, height, refreshRate>>, r.ret,
                           InitialScalarOutput(arguments), nullptr)

ExternalMethodConnectDisplay(target, arguments, env) ==
    IF driver[target] = nullptr
    THEN Rejected(kIOReturnError, arguments)
    ELSE LET width == UInt32(arguments.scalarInput[1])
             height == UInt32(arguments.scalarInput[2])
             refreshRate == UInt32(arguments.scalarInput[3])
             r == ConnectDisplay(ServiceState, width, height, refreshRate, env)
         IN  HandlerResult(r.ret, r.state, "ConnectDisplay",
                           <<width, height, refreshRate>>, r.ret,
                           InitialScalarOutput(arguments), nullptr)

\* Mutant of ExternalMethodDisconnectDisplay: a display that is not connected
\* is reported as NotConnected instead of being disconnected again.
ExternalMethodDisconnectDisplay_OnlyConnected(target, arguments, env) ==
    IF driver[target] = nullptr
    THEN Rejected(kIOReturnError, arguments)
    ELSE IF ~GetDisplayInfo(ServiceState).out[4]
    THEN HandlerResult(NotConnected, ServiceState, "GetDisplayInfo", <<>>,
                       kIOReturnSuccess, InitialScalarOutput(arguments), nullptr)
    ELSE LET r == DisconnectDisplay(ServiceState)
         IN  HandlerResult(r.ret, r.state, "DisconnectDisplay", <<>>, r.ret,
                           InitialScalarOutput(arguments), nullptr)

ExternalMethodDisconnectDisplay(target, arguments, env) ==
    IF driver[target] = nullptr
    THEN Rejected(kIOReturnError, arguments)
    ELSE LET r == DisconnectDisplay(ServiceState)
         IN  HandlerResult(r.ret, r.state, "DisconnectDisplay", <<>>, r.ret,
                           InitialScalarOutput(arguments), nullptr)

\* Mutant of ExternalMethodGetDisplayInfo: height and width written to each
\* other's output slot.
ExternalMethodGetDisplayInfo_Swapped(target, arguments, env) ==
    IF driver[target] = nullptr
    THEN Rejected(kIOReturnError, arguments)
    ELSE LET r == LowerLayer(GetDisplayInfo(ServiceState), ServiceState, env)
         IN  HandlerResult(r.ret, r.state, "GetDisplayInfo", <<>>, r.ret,
                           <<ToU64(r.out[2]), ToU64(r.out[1]), ToU64(r.out[3]),
                             ToU64(IF r.out[4] THEN 1 ELSE 0)>>,
                           nullptr)

\* Mutant of ExternalMethodGetDisplayInfo: the output slots are cleared before
\* the service's result code is looked at.
ExternalMethodGetDisplayInfo_ClearsFirst(target, arguments, env) ==
    IF driver[target] = nullptr
    THEN Rejected(kIOReturnError, arguments)
    ELSE LET r == LowerLayer(GetDisplayInfo(ServiceState), ServiceState, env)
         IN  IF r.ret # kIOReturnSuccess
             THEN HandlerResult(r.ret, r.state, "GetDisplayInfo", <<>>, r.ret,
                                <<U64(0, 0), U64(0, 0), U64(0, 0), U64(0, 0)>>, nullptr)
             ELSE HandlerResult(kIOReturnSuccess, r.state, "GetDisplayInfo", <<>>, r.ret,
                                <<ToU64(r.out[1]), ToU64(r.out[2]), ToU64(r.out[3]),
                                  ToU64(IF r.out[4] THEN 1 ELSE 0)>>,
                                nullptr)

ExternalMethodGetDisplayInfo(target, arguments, env) ==
    IF driver[target] = nullptr
    THEN Rejected(kIOReturnError, arguments)
    ELSE LET r == LowerLayer(GetDisplayInfo(ServiceState), ServiceState, env)
         IN  IF r.ret # kIOReturnSuccess
             THEN HandlerResult(r.ret, r.state, "GetDisplayInfo", <<>>, r.ret,
                                InitialScalarOutput(arguments), nullptr)
             ELSE HandlerResult(kIOReturnSuccess, r.state, "GetDisplayInfo", <<>>, r.ret,
                                <<ToU64(r.out[1]), ToU64(r.out[2]), ToU64(r.out[3]),
                                  ToU64(IF r.out[4] THEN 1 ELSE 0)>>,
                                nullptr)

\* Mutant of ExternalMethodGetFramebuffer: the service's error is dropped and
\* the call reports success with nothing written.
ExternalMethodGetFramebuffer_Swallowed(target, arguments, env) ==
    IF driver[target] = nullptr
    THEN Rejected(kIOReturnError, arguments)
    ELSE LET r == LowerLayer(GetFramebuffer(ServiceState), ServiceState, env)
         IN  IF r.ret # kIOReturnSuccess
             THEN HandlerResult(kIOReturnSuccess, r.state, "GetFramebuffer", <<>>, r.ret,
                                InitialScalarOutput(arguments), nullptr)
             ELSE HandlerResult(kIOReturnSuccess, r.state, "GetFramebuffer", <<>>, r.ret,
                                <<ToU64(r.out[2])>>, r.out[1])

\* Mutant of ExternalMethodGetFramebuffer: every failure of the service is
\* reported as kIOReturnError.
ExternalMethodGetFramebuffer_Masked(target, arguments, env) ==
    IF driver[target] = nullptr
    THEN Rejected(kIOReturnError, arguments)
    ELSE LET r == LowerLayer(GetFramebuffer(ServiceState), ServiceState, env)
         IN  IF r.ret # kIOReturnSuccess
             THEN HandlerResult(kIOReturnError, r.state, "GetFramebuffer", <<>>, r.ret,
                                InitialScalarOutput(arguments), nullptr)
             ELSE HandlerResult(kIOReturnSuccess, r.state, "GetFramebuffer", <<>>, r.ret,
                                <<ToU64(r.out[2])>>, r.out[1])

ExternalMethodGetFramebuffer(target, arguments, env) ==
    IF driver[target] = nullptr
    THEN Rejected(kIOReturnError, arguments)
    ELSE LET r == LowerLayer(GetFramebuffer(ServiceState), ServiceState, env)
         IN  IF r.ret # kIOReturnSuccess
             THEN HandlerResult(r.ret, r.state, "GetFramebuffer", <<>>, r.ret,
                                InitialScalarOutput(arguments), nullptr)
             ELSE HandlerResult(kIOReturnSuccess, r.state, "GetFramebuffer", <<>>, r.ret,
                                <<ToU64(r.out[2])>>, r.out[1])

\* Mutant of ExternalMethodUpdateFramebuffer: offset and length cast to
\* uint32_t, as ExternalMethodConnectDisplay casts its inputs.
ExternalMethodUpdateFramebuffer_Truncated(target, arguments, env) ==
    IF driver[target] = nullptr
    THEN Rejected(kIOReturnError, arguments)
    ELSE LET offset == ToU64(UInt32(arguments.scalarInput[1]))
             length == ToU64(UInt32(arguments.scalarInput[2]))
             r == UpdateFramebuffer(ServiceState, offset, length)
         IN  HandlerResult(r.ret, r.state, "UpdateFramebuffer", <<offset, length>>,
                           r.ret, InitialScalarOutput(arguments), nullptr)

ExternalMethodUpdateFramebuffer(target, arguments, env) ==
    IF driver[target] = nullptr
    THEN Rejected(kIOReturnError, arguments)
    ELSE LET offset == arguments.scalarInput[1]
             length == arguments.scalarInput[2]
             r == UpdateFramebuffer(ServiceState, offset, length)
         IN  HandlerResult(r.ret, r.state, "UpdateFramebuffer", <<offset, length>>,
                           r.ret, InitialScalarOutput(arguments), nullptr)

\* dispatch->function(target, reference, arguments)
CallFunction(function, target, arguments, env) ==
    CASE function = "ExternalMethodConnectDisplay" ->
            ExternalMethodConnectDisplay(target, arguments, env)
      [] function = "ExternalMethodDisconnectDisplay" ->
            ExternalMethodDisconnectDisplay(target, arguments, env)
      [] function = "ExternalMethodGetDisplayInfo" ->
            ExternalMethodGetDisplayInfo(target, arguments, env)
      [] function = "ExternalMethodGetFramebuffer" ->
            ExternalMethodGetFramebuffer(target, arguments, env)
      [] function = "ExternalMethodUpdateFramebuffer" ->
            ExternalMethodUpdateFramebuffer(target, arguments, env)

\* The superclass ExternalMethod: check the arguments against the table entry,
\* then call the entry's function.
SuperExternalMethod(dispatch, target, arguments, env) ==
    IF ~ArgumentsMatch(dispatch, arguments)
    THEN [handler |-> "none"] @@ Rejected(kIOReturnBadArgument, arguments)
    ELSE [handler |-> dispatch.function]
         @@ CallFunction(dispatch.function, target, arguments, env)

\* Mutant of DispatchResult: no range check, the selector indexes the table
\* modulo its length.
DispatchResult_NoRangeCheck(target, selector, arguments, env) ==
    SuperExternalMethod(sMethods(selector % kAirCatchDisplayDriverMethodCount),
                        target, arguments, env)

\* AirCatchUserClient::ExternalMethod, as a function of the call.
DispatchResult(target, selector, arguments, env) ==
    IF selector >= kAirCatchDisplayDriverMethodCount
    THEN [handler |-> "none"] @@ Rejected(kIOReturnBadArgument, arguments)
    ELSE SuperExternalMethod(sMethods(selector), target, arguments, env)

\* What the environment decides during a call: whether the framebuffer
\* allocation succeeds, the code Connect refuses invalid inputs with, and
\* whether a lower layer fails under a read ("none" when it does not).
Envs == [allocOK : BOOLEAN, reject : {OutOfBounds, InternalError},
         fault : {"none", InternalError}]


\* ------------------------------------------------------------ the call record
NoArguments == [shape |-> Shape(0, 0, 0, 0, FALSE), scalarInput |-> <<>>]

\* A lifecycle call (init, Start, Stop, ClientClose) on connection c.
LifecycleCall(op, c, ret) ==
    [op |-> op, conn |-> c, selector |-> -1, arguments |-> NoArguments,
     handler |-> "none", ret |-> ret, svcOp |-> "none", svcArgs |-> <<>>,
     svcRet |-> "none", scalarOutput |-> <<>>, structureOutput |-> nullptr]

\* A dispatch call on connection c and what it gave back.
DispatchCall(c, selector, arguments, result) ==
    [op |-> "ExternalMethod", conn |-> c, selector |-> selector,
     arguments |-> arguments, handler |-> result.handler, ret |-> result.ret,
     svcOp |-> result.svcOp, svcArgs |-> result.svcArgs, svcRet |-> result.svcRet,
     scalarOutput |-> result.scalarOutput,
     structureOutput |-> result.structureOutput]

\* --------------------------------------------------------------- the machine
\* AirCatchUserClient::init on every connection object; AirCatchDisplayDriver
\* started with no display connected.
Init ==
    /\ isOpen = [c \in Conns |-> FALSE]
    /\ driver = [c \in Conns |-> nullptr]
    /\ pc = [c \in Conns |-> "idle"]
    /\ life = [c \in Conns |-> "new"]
    /\ wasClosed = [c \in Conns |-> FALSE]
    /\ connected = FALSE
    /\ config = <<>>
    /\ framebuffer = <<>>
    /\ lock = 0
    /\ inflight = [c \in Conns |-> "none"]
    /\ last = LifecycleCall("init", 0, "none")

\* OSDynamicCast(AirCatchDisplayDriver, provider)
OSDynamicCastDriver(provider) == IF provider = TheDriver THEN TheDriver ELSE nullptr

\* Start, up to the point where the driver reference is held: the superclass
\* Start, then the cast of the provider.
Start(c, provider, superRet) ==
    /\ pc[c] = "idle"
    /\ UNCHANGED <<isOpen, wasClosed, svcVars, txVars>>
    /\ IF superRet # kIOReturnSuccess
       THEN /\ UNCHANGED <<driver, pc>>
            /\ life' = [life EXCEPT ![c] = "started"]
            /\ last' = LifecycleCall("Start", c, superRet)
       ELSE /\ driver' = [driver EXCEPT ![c] = OSDynamicCastDriver(provider)]
            /\ IF driver'[c] = nullptr
               THEN /\ UNCHANGED pc
                    /\ life' = [life EXCEPT ![c] = "started"]
                    /\ last' = LifecycleCall("Start", c, kIOReturnError)
               ELSE /\ pc' = [pc EXCEPT ![c] = "Start_isOpen"]
                    /\ UNCHANGED life
                    /\ last' = LifecycleCall("Start", c, "running")

\* Start, the rest: the connection is marked open and Start returns.
StartOpen(c) ==
    /\ pc[c] = "Start_isOpen"
    /\ isOpen' = [isOpen EXCEPT ![c] = TRUE]
    /\ pc' = [pc EXCEPT ![c] = "idle"]
    /\ life' = [life EXCEPT ![c] = "started"]
    /\ last' = LifecycleCall("Start", c, kIOReturnSuccess)
    /\ UNCHANGED <<driver, wasClosed, svcVars, txVars>>

\* Mutant of Stop: the two assignments in the other order, the reference
\* cleared first.
Stop_ReferenceFirst(c) ==
    /\ pc[c] = "idle"
    /\ life[c] = "started"
    /\ driver' = [driver EXCEPT ![c] = nullptr]
    /\ pc' = [pc EXCEPT ![c] = "Stop_driver"]
    /\ last' = LifecycleCall("Stop", c, "running")
    /\ UNCHANGED <<isOpen, life, wasClosed, svcVars, txVars>>

\* Stop, first assignment: the connection is marked closed.
Stop(c) ==
    /\ pc[c] = "idle"
    /\ life[c] = "started"
    /\ isOpen' = [isOpen EXCEPT ![c] = FALSE]
    /\ pc' = [pc EXCEPT ![c] = "Stop_driver"]
    /\ last' = LifecycleCall("Stop", c, "running")
    /\ UNCHANGED <<driver, life, wasClosed, svcVars, txVars>>

\* Stop, the rest: the driver reference is cleared and the superclass Stop
\* returns superRet.
StopDriver(c, superRet) ==
    /\ pc[c] = "Stop_driver"
    /\ driver' = [driver EXCEPT ![c] = nullptr]
    /\ pc' = [pc EXCEPT ![c] = "idle"]
    /\ life' = [life EXCEPT ![c] = "stopped"]
    /\ wasClosed' = [wasClosed EXCEPT ![c] = TRUE]
    /\ last' = LifecycleCall("Stop", c, superRet)
    /\ UNCHANGED <<isOpen, svcVars, txVars>>

\* Mutant of ClientClose: closing the connection also disconnects the display.
ClientClose_Disconnects(c, terminateRet) ==
    /\ pc[c] = "idle"
    /\ life[c] = "started"
    /\ isOpen' = [isOpen EXCEPT ![c] = FALSE]
    /\ wasClosed' = [wasClosed EXCEPT ![c] = TRUE]
    /\ connected' = FALSE
    /\ config' = <<>>
    /\ framebuffer' = <<>>
    /\ last' = LifecycleCall("ClientClose", c, terminateRet)
    /\ UNCHANGED <<driver, pc, life, txVars>>

\* ClientClose: the connection is marked closed and Terminate(0) is asked for;
\* terminateRet is what Terminate returns.
ClientClose(c, terminateRet) ==
    /\ pc[c] = "idle"
    /\ life[c] = "started"
    /\ isOpen' = [isOpen EXCEPT ![c] = FALSE]
    /\ wasClosed' = [wasClosed EXCEPT ![c] = TRUE]
    /\ last' = LifecycleCall("ClientClose", c, terminateRet)
    /\ UNCHANGED <<driver, pc, life, svcVars, txVars>>

\* ExternalMethod: one inbound call on connection c.
ExternalMethod(c, selector, arguments, env) ==
    /\ pc[c] = "idle"
    /\ \E result \in {DispatchResult(c, selector, arguments, env)} :
           /\ connected' = result.state.connected
           /\ config' = result.state.config
           /\ framebuffer' = result.state.framebuffer
           /\ last' = DispatchCall(c, selector, arguments, result)
    /\ UNCHANGED <<connVars, txVars>>

\* The environment's choices that can matter to a call: only Connect
\* allocates (when its inputs are valid) or refuses inputs (when they are not).
EnvsFor(selector, arguments) ==
    IF selector # kAirCatchDisplayDriverMethodConnectDisplay
       \/ arguments.shape.scalarInputCount # 3
    THEN {[allocOK |-> TRUE, reject |-> OutOfBounds, fault |-> "none"]}
    ELSE IF \E i \in 1..3 : UInt32(arguments.scalarInput[i]) = 0
    THEN {[allocOK |-> TRUE, reject |-> code, fault |-> "none"] : code \in {OutOfBounds, InternalError}}
    ELSE {[allocOK |-> ok, reject |-> OutOfBounds, fault |-> "none"] : ok \in BOOLEAN}

\* The calls a client makes with `selector`: every shape; every choice of
\* scalar inputs where the shape is the one the table declares for the
\* selector, and one choice where it is not (the inputs are then never read).
Declared(selector, sh) ==
    /\ selector < kAirCatchDisplayDriverMethodCount
    /\ sh = Shape(sMethods(selector).checkScalarInputCount,
                  sMethods(selector).checkStructureInputSize,
                  sMethods(selector).checkScalarOutputCount,
                  sMethods(selector).checkStructureOutputSize, FALSE)

ArgumentsFor(selector) ==
    UNION { IF Declared(selector, sh)
            THEN ArgumentsOf(sh)
            ELSE { [shape |-> sh,
                    scalarInput |-> [i \in 1..sh.scalarInputCount |-> U64(0, 1)]] } :
            sh \in Shapes }

\* The one connection of a single client.
Solo == {1}

Providers == {TheDriver, OtherService}
Returns == {kIOReturnSuccess, kIOReturnError}

\* The host's lifecycle of connection c: Start once on a new object, then
\* calls, ClientClose and Stop.
HostStart(c) ==
    \E provider \in Providers, superRet \in Returns :
        life[c] = "new" /\ Start(c, provider, superRet)

HostStop(c) == \E superRet \in Returns : StopDriver(c, superRet)

HostClientClose(c) == \E terminateRet \in Returns : ClientClose(c, terminateRet)

Call(c) ==
    \E selector \in Selectors :
        \E arguments \in ArgumentsFor(selector) :
          \E env \in EnvsFor(selector, arguments) :
            ExternalMethod(c, selector, arguments, env)

\* A further Start on an object that was started before: the code of Start
\* does not refuse it.
HostStartAgain(c) ==
    \E provider \in Providers, superRet \in Returns :
        life[c] # "new" /\ Start(c, provider, superRet)

\* One client connection on the service.
Next ==
    \/ \E c \in Solo : HostStart(c)
    \/ \E c \in Solo : StartOpen(c)
    \/ \E c \in Solo : Stop(c)
    \/ \E c \in Solo : HostStop(c)
    \/ \E c \in Solo : HostClientClose(c)
    \/ \E c \in Solo : Call(c)

Spec == Init /\ [][Next]_vars

\* The same connection, with a host that may start it again.
NextRestart ==
    \/ \E c \in Solo : HostStart(c)
    \/ \E c \in Solo : HostStartAgain(c)
    \/ \E c \in Solo : StartOpen(c)
    \/ \E c \in Solo : Stop(c)
    \/ \E c \in Solo : HostStop(c)
    \/ \E c \in Solo : HostClientClose(c)
    \/ \E c \in Solo : Call(c)

SpecRestart == Init /\ [][NextRestart]_vars

\* Several client connections on the same service, each making the calls the
\* table declares with every scalar input 1.
PlainArguments(selector) ==
    { a \in ArgumentsFor(selector) :
        /\ Declared(selector, a.shape)
        /\ \A i \in 1..a.shape.scalarInputCount : a.scalarInput[i] = U64(0, 1) }

PlainCall(c) ==
    \E selector \in 0..(kAirCatchDisplayDriverMethodCount - 1) :
        \E arguments \in PlainArguments(selector) :
          \E env \in EnvsFor(selector, arguments) :
            ExternalMethod(c, selector, arguments, env)

NextShared ==
    \/ \E c \in Conns : HostStart(c)
    \/ \E c \in Conns : StartOpen(c)
    \/ \E c \in Conns : Stop(c)
    \/ \E c \in Conns : HostStop(c)
    \/ \E c \in Conns : HostClientClose(c)
    \/ \E c \in Conns : PlainCall(c)

SpecShared == Init /\ [][NextShared]_vars

\* ------------------------------------------- the Display Service under calls
\* The offsets and lengths a caller passes to UpdateFramebuffer: the multiples
\* of a pixel's 4 bytes up to 4 * MaxDim, and two values above every
\* framebuffer size: 2^32 and 2^63.
RangeVals == {U64(0, 4 * n) : n \in 0..MaxDim} \cup {U64(1, 0), Top64(0, 0)}

\* The calls of a client that keeps to the table's shapes.
DisplayArguments(selector) ==
    IF selector = kAirCatchDisplayDriverMethodUpdateFramebuffer
    THEN { [shape |-> Shape(2, 0, 0, 0, FALSE), scalarInput |-> in] :
             in \in [1..2 -> RangeVals] }
    ELSE { a \in ArgumentsFor(selector) : Declared(selector, a.shape) }

DisplayCall(c) ==
    \E selector \in 0..(kAirCatchDisplayDriverMethodCount - 1) :
        \E arguments \in DisplayArguments(selector) :
          \E env \in EnvsFor(selector, arguments) :
            ExternalMethod(c, selector, arguments, env)

\* Mutant of DriverStop: the service is marked disconnected and the
\* framebuffer is left allocated.
DriverStop_KeepsFramebuffer(superRet) ==
    /\ lock = 0
    /\ connected' = FALSE
    /\ config' = <<>>
    /\ last' = LifecycleCall("DriverStop", 0, superRet)
    /\ UNCHANGED <<framebuffer, connVars, txVars>>

\* AirCatchDisplayDriver::Stop: the Framebuffer Resource is released and the
\* state marked disconnected, whatever the superclass Stop returns.
DriverStop(superRet) ==
    /\ lock = 0
    /\ connected' = Disconnected.connected
    /\ config' = Disconnected.config
    /\ framebuffer' = Disconnected.framebuffer
    /\ last' = LifecycleCall("DriverStop", 0, superRet)
    /\ UNCHANGED <<connVars, txVars>>

HostDriverStop == \E superRet \in Returns : DriverStop(superRet)

NextDisplay ==
    \/ \E c \in Solo : HostStart(c)
    \/ \E c \in Solo : StartOpen(c)
    \/ \E c \in Solo : Stop(c)
    \/ \E c \in Solo : HostStop(c)
    \/ \E c \in Solo : HostClientClose(c)
    \/ \E c \in Solo : DisplayCall(c)
    \/ HostDriverStop

SpecDisplay == Init /\ [][NextDisplay]_vars

\* GetDisplayInfo and GetFramebuffer with a lower layer failing under them.
FaultyCall(c) ==
    \E selector \in {kAirCatchDisplayDriverMethodGetDisplayInfo,
                      kAirCatchDisplayDriverMethodGetFramebuffer} :
        \E arguments \in DisplayArguments(selector) :
            ExternalMethod(c, selector, arguments,
                           [allocOK |-> TRUE, reject |-> OutOfBounds,
                            fault |-> InternalError])

\* The same client and service, with reads that can fail.
NextFaulty ==
    \/ \E c \in Solo : HostStart(c)
    \/ \E c \in Solo : StartOpen(c)
    \/ \E c \in Solo : Stop(c)
    \/ \E c \in Solo : HostStop(c)
    \/ \E c \in Solo : HostClientClose(c)
    \/ \E c \in Solo : DisplayCall(c)
    \/ \E c \in Solo : FaultyCall(c)
    \/ HostDriverStop

SpecFaulty == Init /\ [][NextFaulty]_vars

\* --------------------------------- Connect in steps, under the service's lock
\* Where a connection's Connect stands while it is inside the service.
ConnectSteps == {"Connect_release", "Connect_allocate", "Connect_store"}

\* The connections whose Connect is inside the service.
InTransition == {c \in Conns : pc[c] \in ConnectSteps}

\* ConnectDisplay calls with every width and height in 1..MaxDim, at rate 1.
ConnectArguments ==
    { [shape |-> Shape(3, 0, 0, 0, FALSE),
       scalarInput |-> <<U64(0, width), U64(0, height), U64(0, 1)>>] :
        width \in 1..MaxDim, height \in 1..MaxDim }

\* The record of a ConnectDisplay call that ran in steps, when it returns.
ConnectReturn(c, ret) ==
    DispatchCall(c, kAirCatchDisplayDriverMethodConnectDisplay, inflight[c].arguments,
                 [handler |-> "ExternalMethodConnectDisplay", ret |-> ret,
                  svcOp |-> "ConnectDisplay", svcArgs |-> inflight[c].svcArgs,
                  svcRet |-> ret,
                  scalarOutput |-> InitialScalarOutput(inflight[c].arguments),
                  structureOutput |-> nullptr])

\* Mutant of ConnectEnter: the transition starts without waiting for the lock.
ConnectEnter_Unlocked(c, arguments) ==
    /\ pc[c] = "idle"
    /\ \E result \in {DispatchResult(c, kAirCatchDisplayDriverMethodConnectDisplay,
                                      arguments, [allocOK |-> TRUE, reject |-> OutOfBounds, fault |-> "none"])} :
           /\ result.svcOp = "ConnectDisplay"
           /\ \A i \in 1..3 : result.svcArgs[i] > 0
           /\ inflight' = [inflight EXCEPT ![c] =
                              [arguments |-> arguments, svcArgs |-> result.svcArgs]]
    /\ lock' = c
    /\ pc' = [pc EXCEPT ![c] = "Connect_release"]
    /\ UNCHANGED <<isOpen, driver, life, wasClosed, svcVars, last>>

\* A ConnectDisplay call whose handler reaches the service with inputs in the
\* valid ranges: the call takes the service's lock, which it waits for while
\* another transition holds it.
ConnectEnter(c, arguments) ==
    /\ pc[c] = "idle"
    /\ lock = 0
    /\ \E result \in {DispatchResult(c, kAirCatchDisplayDriverMethodConnectDisplay,
                                      arguments, [allocOK |-> TRUE, reject |-> OutOfBounds, fault |-> "none"])} :
           /\ result.svcOp = "ConnectDisplay"
           /\ \A i \in 1..3 : result.svcArgs[i] > 0
           /\ inflight' = [inflight EXCEPT ![c] =
                              [arguments |-> arguments, svcArgs |-> result.svcArgs]]
    /\ lock' = c
    /\ pc' = [pc EXCEPT ![c] = "Connect_release"]
    /\ UNCHANGED <<isOpen, driver, life, wasClosed, svcVars, last>>

\* Connect, first step: the existing Framebuffer Resource is torn down and the
\* state is unconnected.
ConnectRelease(c) ==
    /\ pc[c] = "Connect_release"
    /\ connected' = FALSE
    /\ config' = <<>>
    /\ framebuffer' = IF framebuffer = <<>> THEN <<>> ELSE Tail(framebuffer)
    /\ pc' = [pc EXCEPT ![c] = "Connect_allocate"]
    /\ UNCHANGED <<isOpen, driver, life, wasClosed, txVars, last>>

\* Mutant of ConnectAllocate: a failed allocation is not reported and the call
\* goes on to store the configuration.
ConnectAllocate_Unchecked(c, allocOK) ==
    /\ pc[c] = "Connect_allocate"
    /\ framebuffer' = IF allocOK
                      THEN <<FramebufferSize(inflight[c].svcArgs[1],
                                             inflight[c].svcArgs[2])>> \o framebuffer
                      ELSE framebuffer
    /\ pc' = [pc EXCEPT ![c] = "Connect_store"]
    /\ UNCHANGED <<connected, config, isOpen, driver, life, wasClosed, txVars, last>>

\* Connect, second step: the new framebuffer is allocated; when the allocation
\* fails the call returns AllocationFailed and the state stays unconnected.
ConnectAllocate(c, allocOK) ==
    /\ pc[c] = "Connect_allocate"
    /\ IF allocOK
       THEN /\ framebuffer' = <<FramebufferSize(inflight[c].svcArgs[1],
                                                inflight[c].svcArgs[2])>> \o framebuffer
            /\ pc' = [pc EXCEPT ![c] = "Connect_store"]
            /\ UNCHANGED <<connected, config, txVars, last>>
       ELSE /\ pc' = [pc EXCEPT ![c] = "idle"]
            /\ lock' = 0
            /\ inflight' = [inflight EXCEPT ![c] = "none"]
            /\ last' = ConnectReturn(c, AllocationFailed)
            /\ UNCHANGED svcVars
    /\ UNCHANGED <<isOpen, driver, life, wasClosed>>

\* Connect, last step: the configuration is stored, the state is connected,
\* the lock is given back and the call returns Success.
ConnectStore(c) ==
    /\ pc[c] = "Connect_store"
    /\ connected' = TRUE
    /\ config' = inflight[c].svcArgs
    /\ pc' = [pc EXCEPT ![c] = "idle"]
    /\ lock' = 0
    /\ inflight' = [inflight EXCEPT ![c] = "none"]
    /\ last' = ConnectReturn(c, kIOReturnSuccess)
    /\ UNCHANGED <<framebuffer, isOpen, driver, life, wasClosed>>

\* DisconnectDisplay and GetFramebuffer run as a whole while no transition
\* holds the lock.
LockedCall(c) ==
    /\ lock = 0
    /\ \E selector \in {kAirCatchDisplayDriverMethodDisconnectDisplay,
                          kAirCatchDisplayDriverMethodGetFramebuffer} :
          \E arguments \in PlainArguments(selector) :
            \E env \in EnvsFor(selector, arguments) :
              ExternalMethod(c, selector, arguments, env)

\* A connection opened against the driver.
HostOpen(c) == life[c] = "new" /\ Start(c, TheDriver, kIOReturnSuccess)

\* Several open connections on the same service, their Connect calls
\* interleaved.
NextConcurrent ==
    \/ \E c \in Conns : HostOpen(c)
    \/ \E c \in Conns : StartOpen(c)
    \/ \E c \in Conns : \E arguments \in ConnectArguments : ConnectEnter(c, arguments)
    \/ \E c \in Conns : ConnectRelease(c)
    \/ \E c \in Conns : \E allocOK \in BOOLEAN : ConnectAllocate(c, allocOK)
    \/ \E c \in Conns : ConnectStore(c)
    \/ \E c \in Conns : LockedCall(c)

SpecConcurrent == Init /\ [][NextConcurrent]_vars

\* ================================================================ properties
\* The call interface as the design document tabulates it: per selector, the
\* scalar inputs and scalar outputs a call carries; no structure sizes and no
\* completion.
Schema(selector) ==
    CASE selector = 0 -> Shape(3, 0, 0, 0, FALSE)
      [] selector = 1 -> Shape(0, 0, 0, 0, FALSE)
      [] selector = 2 -> Shape(0, 0, 4, 0, FALSE)
      [] selector = 3 -> Shape(0, 0, 1, 0, FALSE)
      [] selector = 4 -> Shape(2, 0, 0, 0, FALSE)

\* The Display Service operation each selector stands for.
Operation(selector) ==
    CASE selector = 0 -> "ConnectDisplay"
      [] selector = 1 -> "DisconnectDisplay"
      [] selector = 2 -> "GetDisplayInfo"
      [] selector = 3 -> "GetFramebuffer"
      [] selector = 4 -> "UpdateFramebuffer"

IsDispatch(call) == call.op = "ExternalMethod"
InEnumeration(call) == IsDispatch(call) /\ call.selector \in 0..4
WellFormed(call) == InEnumeration(call) /\ call.arguments.shape = Schema(call.selector)

\* C1: a dispatch call with a selector >= 5, in whatever state the connection
\* is, returns the invalid-selector code (kIOReturnBadArgument), runs no handler
\* and no Display Service operation, and changes neither the connection nor
\* the DisplayState.
C1_InvalidSelector ==
    [][ (IsDispatch(last') /\ last'.selector >= 5)
            => /\ last'.ret = kIOReturnBadArgument
               /\ last'.handler = "none"
               /\ last'.svcOp = "none"
               /\ UNCHANGED <<connVars, svcVars>> ]_vars

\* C1 witness: selector 5 was refused on an open connection with a display
\* connected.
C1_Witness ==
    /\ IsDispatch(last) /\ last.selector >= 5
    /\ last.ret = kIOReturnBadArgument
    /\ isOpen[last.conn] /\ driver[last.conn] # nullptr
    /\ connected

\* C2: a dispatch call with a selector in 0..4 whose argument shape differs
\* from the interface table's entry for the selector returns the
\* argument-mismatch code (kIOReturnBadArgument) before any handler runs: no
\* Display Service operation, DisplayState unchanged, with or without a
\* service reference.
C2_ArgumentMismatch ==
    [][ (InEnumeration(last') /\ ~WellFormed(last'))
            => /\ last'.ret = kIOReturnBadArgument
               /\ last'.handler = "none"
               /\ last'.svcOp = "none"
               /\ UNCHANGED <<connVars, svcVars>> ]_vars

\* C2 witness: ConnectDisplay with 2 scalar inputs instead of 3 was refused on
\* a connection that holds a service reference.
C2_Witness ==
    /\ IsDispatch(last) /\ last.selector = 0
    /\ last.arguments.shape.scalarInputCount = 2
    /\ last.ret = kIOReturnBadArgument
    /\ driver[last.conn] # nullptr

\* C3 (as claimed): a well-formed dispatch call on a connection that is not
\* open returns the not-ready code (kIOReturnError) and reaches no Display
\* Service operation.  A dispatch changes no connection, so the open flag
\* after the call is the one it met.
C3_NotOpenNotReady ==
    (WellFormed(last) /\ ~isOpen[last.conn])
        => (last.ret = kIOReturnError /\ last.svcOp = "none")

\* C4 (as claimed): once ClientClose or Stop has run on a connection, it is
\* never open again.
C4_ClosedIsTerminal ==
    \A c \in Conns : wasClosed[c] => ~(isOpen[c] /\ driver[c] # nullptr)

\* C5: in every state, the steps inside Start and Stop included, an open
\* connection holds a service reference; and a Start that has returned an
\* error leaves the connection not open with no service reference.
C5_OpenHasService ==
    /\ \A c \in Conns : isOpen[c] => driver[c] # nullptr
    /\ (last.op = "Start" /\ last.ret \notin {kIOReturnSuccess, "running"})
           => (~isOpen[last.conn] /\ driver[last.conn] = nullptr)

\* C5 witness: inside Stop of a connection that was open, between the two
\* assignments.
C5_Witness ==
    \E c \in Conns : pc[c] = "Stop_driver" /\ last.op = "Stop" /\ driver[c] # nullptr

\* C6 (as claimed): when ClientClose or Stop has returned, the connection is
\* marked closed and its service reference is cleared.
C6_CloseClearsReference ==
    (last.op = "ClientClose" \/ (last.op = "Stop" /\ last.ret # "running"))
        => (~isOpen[last.conn] /\ driver[last.conn] = nullptr)

\* C7: a step of ClientClose or Stop leaves DisplayState and the framebuffer
\* as they were, and the open flag and service reference of every other
\* connection too.
C7_CloseLeavesService ==
    [][ last'.op \in {"ClientClose", "Stop"}
            => /\ UNCHANGED svcVars
               /\ \A d \in Conns \ {last'.conn} :
                     isOpen'[d] = isOpen[d] /\ driver'[d] = driver[d] ]_vars

\* C7 witness: a connection was stopped while a display is connected and
\* another connection is open.
C7_Witness ==
    /\ last.op = "Stop" /\ last.ret # "running"
    /\ connected /\ framebuffer # <<>>
    /\ \E d \in Conns \ {last.conn} : isOpen[d] /\ driver[d] # nullptr

\* C8: a well-formed call on an open connection invokes the selector's
\* Display Service operation and returns that operation's result code, and
\* leaves the connection's open flag and service reference as they were.
C8_ResultPropagated ==
    [][ (WellFormed(last') /\ isOpen[last'.conn])
            => /\ last'.svcOp = Operation(last'.selector)
               /\ last'.ret = last'.svcRet
               /\ UNCHANGED <<isOpen, driver>> ]_vars

\* C8 witness: an open connection got the service's NotConnected back from
\* GetFramebuffer and is still open.
C8_Witness ==
    /\ WellFormed(last) /\ last.selector = 3
    /\ last.svcRet = NotConnected /\ last.ret = NotConnected
    /\ isOpen[last.conn] /\ driver[last.conn] # nullptr

\* Why a dispatch call failed before reaching the service.
Cause(call) ==
    IF ~InEnumeration(call) THEN "InvalidSelector"
    ELSE IF ~WellFormed(call) THEN "ArgumentMismatch"
    ELSE IF driver[call.conn] = nullptr THEN "NotReady"
    ELSE "service"

FailedBeforeService(call) ==
    IsDispatch(call) /\ call.ret # kIOReturnSuccess /\ Cause(call) # "service"

\* C9 (as claimed): two calls that fail for different causes (invalid
\* selector, argument mismatch, no service reference) return different codes,
\* and none of them returns Success or the service's InternalError.
C9_DistinctCodes ==
    [][ /\ (FailedBeforeService(last) /\ FailedBeforeService(last')
               /\ Cause(last) # Cause(last'))
            => last.ret # last'.ret
        /\ (IsDispatch(last') /\ Cause(last') # "service")
            => last'.ret \notin {kIOReturnSuccess, InternalError} ]_vars

\* A valid dimension or rate as a scalar input: a 32-bit value above zero.
ValidScalar(x) == x.top = 0 /\ x.hi = 0 /\ x.lo > 0

\* ConnectDisplay reached the service with valid inputs on an open connection.
ConnectIssued(call) ==
    /\ WellFormed(call) /\ call.selector = 0
    /\ call.svcOp = "ConnectDisplay"
    /\ \A i \in 1..3 : ValidScalar(call.arguments.scalarInput[i])

\* GetDisplayInfo answered (width, height, refreshRate, 1) of the Connect.
InfoEchoes(connect, info) ==
    /\ info.ret = kIOReturnSuccess
    /\ info.scalarOutput = <<connect.arguments.scalarInput[1],
                             connect.arguments.scalarInput[2],
                             connect.arguments.scalarInput[3], U64(0, 1)>>

Reached(call, op) == IsDispatch(call) /\ call.svcOp = op

\* C11: in every state reached by Connect, Disconnect, GetDisplayInfo,
\* GetFramebuffer, UpdateFramebuffer and the service's Stop, a framebuffer
\* exists exactly when connected is true, and connected is true exactly when a
\* DisplayConfig is stored; the state the service starts in is disconnected
\* with no framebuffer, and so is the state Stop leaves.
C11_FramebufferIffConnected ==
    /\ (framebuffer # <<>>) <=> connected
    /\ connected <=> (config # <<>>)
    /\ last.op \in {"init", "DriverStop"} => (~connected /\ framebuffer = <<>>)

\* C11 witness: a Connect has succeeded and the service holds a configuration
\* and a framebuffer.
C11_Witness ==
    /\ Reached(last, "ConnectDisplay") /\ last.ret = kIOReturnSuccess
    /\ connected /\ framebuffer # <<>> /\ config # <<>>

\* A well-formed call of `selector` on a connection that holds a service
\* reference when the call arrives.
Served(call, selector) ==
    WellFormed(call) /\ call.selector = selector /\ driver[call.conn] # nullptr

\* C12: GetFramebuffer called while no display is connected (before any
\* Connect, after a Disconnect, after a failed Connect) returns NotConnected
\* and writes neither a handle nor a size.
C12_GetFramebufferNotConnected ==
    [][ (Served(last', 3) /\ ~connected)
            => /\ last'.ret = NotConnected
               /\ last'.structureOutput = nullptr
               /\ last'.scalarOutput = <<Unwritten>> ]_vars

\* C12 witness: GetFramebuffer was refused while no display is connected,
\* with nothing written.
C12_Witness ==
    /\ Served(last, 3) /\ last.ret = NotConnected
    /\ last.structureOutput = nullptr /\ last.scalarOutput = <<Unwritten>>
    /\ ~connected /\ framebuffer = <<>>

\* C13: at every step, the steps inside Connect included, at most one
\* framebuffer is allocated (so a new one is allocated only once the previous
\* one is released); and a GetFramebuffer that follows a successful Connect,
\* a reconnect at another resolution included, returns Success with a handle
\* and size = width * height * 4 of that Connect.
C13_ReconnectSize ==
    [][ /\ Len(framebuffer') <= 1
        /\ (ConnectIssued(last) /\ last.ret = kIOReturnSuccess /\ Served(last', 3))
              => /\ last'.ret = kIOReturnSuccess
                 /\ last'.structureOutput # nullptr
                 /\ last'.scalarOutput =
                       <<ToU64(FramebufferSize(UInt32(last.arguments.scalarInput[1]),
                                               UInt32(last.arguments.scalarInput[2])))>>
      ]_vars

\* C13 witness: GetFramebuffer returned a handle and the 8 bytes of the 2 x 1
\* display, the only framebuffer allocated.
C13_Witness ==
    /\ Served(last, 3) /\ last.ret = kIOReturnSuccess
    /\ last.scalarOutput = <<U64(0, 8)>> /\ last.structureOutput # nullptr
    /\ config = <<2, 1, 1>> /\ framebuffer = <<8>>

\* x > n, for a 64-bit x and a size n.
Above(x, n) == x.top > 0 \/ x.hi > 0 \/ x.lo > n

\* offset + length > size as numbers, with no 64-bit addition: offset lies
\* beyond the size, or length is more than what is left after offset.
Exceeds(offset, length, size) ==
    Above(offset, size) \/ Above(length, size - offset.lo)

\* C14: UpdateFramebuffer(offset, length) on a connected display returns
\* OutOfBounds whenever offset + length exceeds the framebuffer size, pairs
\* that wrap around 2^64 included, and Success for (0, 0); with no display
\* connected it returns NotConnected.  DisplayState and the framebuffer are the
\* same after the call in every case.
C14_UpdateBounds ==
    [][ Served(last', 4)
          => LET offset == last'.arguments.scalarInput[1]
                 length == last'.arguments.scalarInput[2]
             IN  /\ ~connected => last'.ret = NotConnected
                 /\ (connected /\ Exceeds(offset, length, framebuffer[1]))
                       => last'.ret = OutOfBounds
                 /\ (connected /\ offset = U64(0, 0) /\ length = U64(0, 0))
                       => last'.ret = kIOReturnSuccess
                 /\ UNCHANGED svcVars ]_vars

\* C14 witness: UpdateFramebuffer(2^63, 2^63), whose sum wraps to 0, was
\* refused with OutOfBounds on a connected display.
C14_Witness ==
    /\ Served(last, 4)
    /\ last.arguments.scalarInput = <<Top64(0, 0), Top64(0, 0)>>
    /\ last.ret = OutOfBounds
    /\ connected /\ framebuffer # <<>>

\* C15: DisconnectDisplay called with no display connected returns Success
\* and leaves the state disconnected; and a GetDisplayInfo that follows a
\* Disconnect returns Success with width, height, refreshRate and connected
\* all 0.
C15_DisconnectIdempotent ==
    [][ /\ (Served(last', 1) /\ ~connected)
              => /\ last'.ret = kIOReturnSuccess
                 /\ ~connected' /\ config' = <<>> /\ framebuffer' = <<>>
        /\ (Served(last, 1) /\ last.ret = kIOReturnSuccess /\ Served(last', 2))
              => /\ last'.ret = kIOReturnSuccess
                 /\ last'.scalarOutput = <<U64(0, 0), U64(0, 0), U64(0, 0), U64(0, 0)>>
      ]_vars

\* C15 witness: Disconnect has returned Success on an open connection and the
\* state is disconnected, with no configuration and no framebuffer.
C15_Witness ==
    /\ Served(last, 1) /\ last.ret = kIOReturnSuccess
    /\ last.svcOp = "DisconnectDisplay"
    /\ ~connected /\ config = <<>> /\ framebuffer = <<>>
    /\ isOpen[last.conn]

\* C16: with the Connect calls of several connections interleaved step by
\* step, at most one transition is inside the service, at most one
\* framebuffer is allocated, and whenever no transition is in progress a
\* connected state has exactly the framebuffer of its stored configuration.
C16_ConcurrentConnect ==
    /\ Cardinality(InTransition) <= 1
    /\ Len(framebuffer) <= 1
    /\ (InTransition = {} /\ connected)
           => (config # <<>>
               /\ framebuffer = <<FramebufferSize(config[1], config[2])>>)

\* C16 witness: two connections are open, one is inside Connect with the lock
\* held after releasing the framebuffer of the other one's earlier Connect.
C16_Witness ==
    /\ \E c \in Conns : pc[c] = "Connect_allocate" /\ lock = c
    /\ \A c \in Conns : isOpen[c] /\ driver[c] # nullptr
    /\ Reached(last, "ConnectDisplay") /\ last.ret = kIOReturnSuccess
    /\ pc[last.conn] = "idle"
    /\ framebuffer = <<>>

\* C17: when the allocation inside Connect fails (the allocating step ends
\* with no framebuffer added), the call returns AllocationFailed at once and
\* the state is disconnected with no framebuffer and no configuration, whatever
\* was connected before the call.
C17_AllocationFailure ==
    [][ \A c \in Conns :
          (pc[c] = "Connect_allocate" /\ pc'[c] # "Connect_allocate"
              /\ framebuffer' = framebuffer)
            => /\ pc'[c] = "idle"
               /\ Reached(last', "ConnectDisplay") /\ last'.conn = c
               /\ last'.ret = AllocationFailed
               /\ ~connected' /\ config' = <<>> /\ framebuffer' = <<>> ]_vars

\* C17 witness: a Connect has returned AllocationFailed and the service is
\* disconnected with nothing allocated.
C17_Witness ==
    /\ Reached(last, "ConnectDisplay") /\ last.ret = AllocationFailed
    /\ pc[last.conn] = "idle" /\ lock = 0
    /\ ~connected /\ config = <<>> /\ framebuffer = <<>>

\* The value of a 64-bit scalar modulo 2^32: of top * 2^63 + hi * 2^32 + lo
\* the first two terms are multiples of 2^32.
Mod2to32(x) == x.lo

\* C18: the arguments that reach ConnectDisplay are scalar inputs 0, 1, 2
\* modulo 2^32, in that order (2^32 arrives as 0, 2^32 + 1 as 1); the
\* arguments that reach UpdateFramebuffer are scalar inputs 0, 1 as they are,
\* all 64 bits.
C18_ForwardedArguments ==
    /\ Reached(last, "ConnectDisplay")
           => last.svcArgs = <<Mod2to32(last.arguments.scalarInput[1]),
                               Mod2to32(last.arguments.scalarInput[2]),
                               Mod2to32(last.arguments.scalarInput[3])>>
    /\ Reached(last, "UpdateFramebuffer")
           => last.svcArgs = <<last.arguments.scalarInput[1],
                               last.arguments.scalarInput[2]>>

\* C18 witness: ConnectDisplay(2^32 + 1, 2, 2^32) reached the service as
\* Connect(1, 2, 0).
C18_Witness ==
    /\ Reached(last, "ConnectDisplay")
    /\ last.arguments.scalarInput = <<U64(1, 1), U64(0, 2), U64(1, 0)>>
    /\ last.svcArgs = <<1, 2, 0>>

\* C19: a GetDisplayInfo or GetFramebuffer call that does not return Success
\* (the service or a layer under it failed, or the connection holds no service
\* reference) leaves every scalar output slot and the structure output as the
\* caller passed them; a GetFramebuffer that returns Success has written the
\* service's framebuffer handle to structureOutput and its size to
\* scalarOutput[0].
C19_OutputsOnlyOnSuccess ==
    /\ (WellFormed(last) /\ last.selector \in {2, 3} /\ last.ret # kIOReturnSuccess)
           => /\ last.scalarOutput = InitialScalarOutput(last.arguments)
              /\ last.structureOutput = nullptr
    /\ (WellFormed(last) /\ last.selector = 3 /\ last.ret = kIOReturnSuccess)
           => /\ framebuffer # <<>>
              /\ last.structureOutput = "framebuffer"
              /\ last.scalarOutput = <<ToU64(framebuffer[1])>>

\* C19 witness: GetDisplayInfo returned the InternalError of the service on a
\* connected display and the four output slots are as they were passed.
C19_Witness ==
    /\ Served(last, 2) /\ last.svcOp = "GetDisplayInfo"
    /\ last.ret = InternalError
    /\ last.scalarOutput = <<Unwritten, Unwritten, Unwritten, Unwritten>>
    /\ last.structureOutput = nullptr
    /\ connected

=============================================================================
